---- MODULE Spec2Model ----
\* A model of the label registry of homeassistant/helpers/label_registry.py:
\* the map of labels, the index by normalized name, the generation of ids and
\* the create / get-or-create / update / delete operations with the calls they
\* make to the event bus, the store and the device and entity registries.
EXTENDS Integers, Sequences, FiniteSets, TLC

\* ---------------------------------------------------------------- strings
\* A Python string is a sequence of one-character strings.  None and UNDEFINED
\* are sequences holding one long token, which no string of characters equals.

None == <<"None">>

UNDEFINED == <<"UNDEFINED">>

Upper == <<"A", "B">>

Lower == <<"a", "b">>

Digits == <<"0", "1", "2", "3", "4", "5", "6", "7", "8", "9">>

\* str.casefold on one character of the alphabet used here.
CaseFoldChar(c) ==
    IF \E i \in 1..Len(Upper) : Upper[i] = c
    THEN Lower[CHOOSE i \in 1..Len(Upper) : Upper[i] = c]
    ELSE c

\* str.casefold
casefold(s) == [i \in 1..Len(s) |-> CaseFoldChar(s[i])]

IsSpace(c) == c = " "

NotSpace(c) == ~IsSpace(c)

\* normalize_label_name: label_name.casefold().replace(" ", "")
normalize_label_name(label_name) == SelectSeq(casefold(label_name), NotSpace)

IsAlnum(c) ==
    \/ \E i \in 1..Len(Lower) : Lower[i] = c
    \/ \E i \in 1..Len(Digits) : Digits[i] = c

Separator == "_"

SlugChar(c) == IF IsAlnum(CaseFoldChar(c)) THEN CaseFoldChar(c) ELSE Separator

RECURSIVE Collapse(_)
\* Runs of the separator become one separator.
Collapse(s) ==
    IF Len(s) <= 1 THEN s
    ELSE IF s[1] = Separator /\ s[2] = Separator THEN Collapse(Tail(s))
    ELSE <<s[1]>> \o Collapse(Tail(s))

RECURSIVE Strip(_)
\* Leading and trailing separators are dropped.
Strip(s) ==
    IF s = <<>> THEN s
    ELSE IF s[1] = Separator THEN Strip(Tail(s))
    ELSE IF s[Len(s)] = Separator THEN Strip(SubSeq(s, 1, Len(s) - 1))
    ELSE s

\* slugify(name): the lowercase, separator-joined token form of a name.
slugify(text) == Strip(Collapse([i \in 1..Len(text) |-> SlugChar(text[i])]))

RECURSIVE str(_)
\* The decimal digits of a natural number, as f"{tries}" formats it.
str(n) == IF n < 10 THEN <<Digits[n + 1]>> ELSE str(n \div 10) \o <<Digits[(n % 10) + 1]>>

\* ------------------------------------------------------------ input sets
\* The names the operations are called with: two spellings of one normalized
\* name ("a", "A "), names of other normalized names and the same slug
\* ("a_", "_a"), and a name whose slug is the second id of that slug ("a 2").
Names == { <<"a">>, <<"A", " ">>, <<"a", "_">>, <<"_", "a">>, <<"a", " ", "2">> }

\* The names update renames a label to: the two spellings of one normalized
\* name and a name of another normalized name.
UpdateNames == { <<"a">>, <<"A", " ">>, <<"a", "_">> }

\* The names of the history of the ids: one normalized name each; a label is
\* renamed to a name of its slug or of another slug.
IdNames == Names \ { <<"A", " ">> }

RenameNames == { <<"a">>, <<"a", " ", "2">> }

Red == <<"r", "e", "d">>

ColorIn == {UNDEFINED, None, Red}

DescriptionIn == {UNDEFINED}

IconIn == {UNDEFINED}

\* The registry holds at most MaxLabels labels.
MaxLabels == 2

\* The history holds at most MaxCreates labels created per slug.
MaxCreates == 3

\* ------------------------------------------------------------------ state
VARIABLES
    labels,     \* self.labels: label_id -> LabelEntry
    idx,        \* self._normalized_name_label_idx: normalized name -> label_id
    call,       \* the last call: its arguments, its outcome and the calls it made
    assigned,   \* history: the ids async_create has returned so far
    created,    \* history: per slug, how many labels were created, of which
                \* normalized names
    store,      \* the file of self._store: whether it exists and the data in it
    timers,     \* the delayed writes self._store has pending
    hass        \* hass.data: whether DATA_REGISTRY is set, and where the task
                \* running async_load(hass) stands

vars == <<labels, idx, call, assigned, created, store, timers, hass>>

EmptyMap == [x \in {} |-> None]

Put(f, k, v) == [x \in DOMAIN f \cup {k} |-> IF x = k THEN v ELSE f[x]]

Remove(f, k) == [x \in DOMAIN f \ {k} |-> f[x]]

\* The dataclass LabelEntry.
LabelEntry(label_id, name, normalized_name, description, color, icon) ==
    [label_id |-> label_id, name |-> name, normalized_name |-> normalized_name,
     description |-> description, color |-> color, icon |-> icon]

\* One call to a collaborator, with the registry as it is when the call is made.
Effect(kind, action, label_id, r) ==
    [kind |-> kind, action |-> action, label_id |-> label_id,
     labels |-> r.labels, idx |-> r.idx]

\* hass.bus.async_fire(EVENT_LABEL_REGISTRY_UPDATED, {"action": .., "label_id": ..})
async_fire(r, action, label_id) ==
    [r EXCEPT !.trace = Append(@, Effect("event", action, label_id, r))]

\* self._store.async_delay_save(self._data_to_save, SAVE_DELAY)
async_schedule_save(r) ==
    [r EXCEPT !.trace = Append(@, Effect("save", "-", None, r))]

\* dr.async_get(hass).async_clear_label_id / er.async_get(hass).async_clear_label_id
async_clear_label_id(r, registry, label_id) ==
    [r EXCEPT !.trace = Append(@, Effect(registry, "clear", label_id, r))]

\* A handler's outcome: the registry it leaves, the calls it made, the
\* exception it raised ("none" when it returned) and what it returned.
Return(r, returned) ==
    [labels |-> r.labels, idx |-> r.idx, trace |-> r.trace,
     error |-> "none", returned |-> returned]

Raise(r, error) ==
    [labels |-> r.labels, idx |-> r.idx, trace |-> r.trace,
     error |-> error, returned |-> <<>>]

Frame(L, I) == [labels |-> L, idx |-> I, trace |-> <<>>]

\* The index is read with the name as given, not with its normalized form.
LookupRaw(L, I, name) ==
    IF name \notin DOMAIN I
    THEN [error |-> "none", returned |-> <<>>]
    ELSE IF I[name] \notin DOMAIN L
    THEN [error |-> "KeyError", returned |-> <<>>]
    ELSE [error |-> "none", returned |-> <<L[I[name]]>>]

\* async_get_label_by_name: <<>> is None, <<entry>> a label.
async_get_label_by_name(L, I, name) ==
    LET normalized_name == normalize_label_name(name) IN
    IF normalized_name \notin DOMAIN I
    THEN [error |-> "none", returned |-> <<>>]
    ELSE IF I[normalized_name] \notin DOMAIN L
    THEN [error |-> "KeyError", returned |-> <<>>]
    ELSE [error |-> "none", returned |-> <<L[I[normalized_name]]>>]

\* The counter is formatted before it is incremented.
SuggestionOffByOne(suggestion_base, tries) ==
    IF tries = 1 THEN suggestion_base
    ELSE suggestion_base \o <<"_">> \o str(tries - 1)

Suggestion(suggestion_base, tries) ==
    IF tries = 1 THEN suggestion_base
    ELSE suggestion_base \o <<"_">> \o str(tries)

\* An `if` in place of the `while`: one retry only.
GenerateOnce(L, suggestion_base, tries) ==
    IF suggestion_base \in DOMAIN L THEN suggestion_base \o <<"_">> \o str(2)
    ELSE suggestion_base

RECURSIVE GenerateFrom(_, _, _)
\* The loop of _generate_id: while suggestion in self.labels: tries += 1.
GenerateFrom(L, suggestion_base, tries) ==
    IF Suggestion(suggestion_base, tries) \in DOMAIN L
    THEN GenerateFrom(L, suggestion_base, tries + 1)
    ELSE Suggestion(suggestion_base, tries)

\* The slug is taken without looking at the ids in use.
GenerateNoLoop(L, name) == slugify(name)

generate_id(L, name) == GenerateFrom(L, slugify(name), 1)

\* ------------------------------------------------------------- operations
\* The event carries the name in the place of the id.
CreateNewEventName(r0, name, normalized_name, color, icon, description) ==
    LET label == LabelEntry(generate_id(r0.labels, name), name, normalized_name,
                            description, color, icon)
        r1 == [r0 EXCEPT !.labels = Put(@, label.label_id, label)]
        r2 == [r1 EXCEPT !.idx = Put(@, normalized_name, label.label_id)]
        r3 == async_schedule_save(r2)
        r4 == async_fire(r3, "create", name)
    IN  Return(r4, <<label>>)

\* Lines 99-114 of async_create: the new entry, the two maps, the save, the event.
CreateNew(r0, name, normalized_name, color, icon, description) ==
    LET label == LabelEntry(generate_id(r0.labels, name), name, normalized_name,
                            description, color, icon)
        r1 == [r0 EXCEPT !.labels = Put(@, label.label_id, label)]
        r2 == [r1 EXCEPT !.idx = Put(@, normalized_name, label.label_id)]
        r3 == async_schedule_save(r2)
        r4 == async_fire(r3, "create", label.label_id)
    IN  Return(r4, <<label>>)

\* async_create(name, color=, icon=, description=)
async_create(L, I, name, color, icon, description) ==
    LET normalized_name == normalize_label_name(name)
        found == async_get_label_by_name(L, I, name)
    IN  IF found.error # "none" THEN Raise(Frame(L, I), found.error)
        ELSE IF found.returned # <<>> THEN Raise(Frame(L, I), "ValueError")
        ELSE CreateNew(Frame(L, I), name, normalized_name, color, icon, description)

\* The name is looked up as given, not by its normalized form.
GetOrCreateRawName(L, I, name) ==
    IF name \in DOMAIN I /\ I[name] \in DOMAIN L
    THEN Return(Frame(L, I), <<L[I[name]]>>)
    ELSE async_create(L, I, name, None, None, None)

\* async_get_or_create(name)
async_get_or_create(L, I, name) ==
    LET found == async_get_label_by_name(L, I, name) IN
    IF found.error # "none" THEN Raise(Frame(L, I), found.error)
    ELSE IF found.returned # <<>> THEN Return(Frame(L, I), found.returned)
    ELSE async_create(L, I, name, None, None, None)

\* The label is removed and the index keeps its key.
DeleteFoundKeepsIndex(r0, label, label_id) ==
    LET r1 == async_clear_label_id(r0, "device_registry", label_id)
        r2 == async_clear_label_id(r1, "entity_registry", label_id)
        r3 == [r2 EXCEPT !.labels = Remove(@, label_id)]
        r5 == async_fire(r3, "remove", label_id)
        r6 == async_schedule_save(r5)
    IN  Return(r6, <<>>)

\* The save is scheduled before the label is removed and the event fired.
DeleteFoundSaveFirst(r0, label, label_id) ==
    LET r1 == async_clear_label_id(r0, "device_registry", label_id)
        r2 == async_clear_label_id(r1, "entity_registry", label_id)
        r3 == async_schedule_save(r2)
        r4 == [r3 EXCEPT !.labels = Remove(@, label_id)]
        r5 == [r4 EXCEPT !.idx = Remove(@, label.normalized_name)]
        r6 == async_fire(r5, "remove", label_id)
    IN  Return(r6, <<>>)

\* Lines 121-132 of async_delete: the label is in the registry.
DeleteFound(r0, label, label_id) ==
    LET r1 == async_clear_label_id(r0, "device_registry", label_id)
        r2 == async_clear_label_id(r1, "entity_registry", label_id)
        r3 == [r2 EXCEPT !.labels = Remove(@, label_id)]
    IN  IF label.normalized_name \notin DOMAIN r3.idx THEN Raise(r3, "KeyError")
        ELSE
            LET r4 == [r3 EXCEPT !.idx = Remove(@, label.normalized_name)]
                r5 == async_fire(r4, "remove", label_id)
                r6 == async_schedule_save(r5)
            IN  Return(r6, <<>>)

\* The references are cleared before the label is looked up.
DeleteClearsFirst(L, I, label_id) ==
    IF label_id \notin DOMAIN L
    THEN Raise(async_clear_label_id(
                   async_clear_label_id(Frame(L, I), "device_registry", label_id),
                   "entity_registry", label_id), "KeyError")
    ELSE DeleteFound(Frame(L, I), L[label_id], label_id)

\* async_delete(label_id)
async_delete(L, I, label_id) ==
    IF label_id \notin DOMAIN L THEN Raise(Frame(L, I), "KeyError")
    ELSE DeleteFound(Frame(L, I), L[label_id], label_id)

\* Every optional field that was passed counts as changed.
FieldChangesPassed(old, color, description, icon) ==
    LET value == [attr_name \in {"color", "description", "icon"} |->
                    CASE attr_name = "color" -> color
                      [] attr_name = "description" -> description
                      [] attr_name = "icon" -> icon]
    IN  [attr_name \in {a \in DOMAIN value : value[a] # UNDEFINED} |-> value[attr_name]]

\* None is taken for a field that was not passed.
FieldChangesNotNone(old, color, description, icon) ==
    LET value == [attr_name \in {"color", "description", "icon"} |->
                    CASE attr_name = "color" -> color
                      [] attr_name = "description" -> description
                      [] attr_name = "icon" -> icon]
    IN  [attr_name \in {a \in DOMAIN value :
                            value[a] \notin {UNDEFINED, None} /\ old[a] # value[a]}
            |-> value[attr_name]]

\* The dict comprehension of async_update: the optional fields that were
\* passed and differ from the old value.
FieldChanges(old, color, description, icon) ==
    LET value == [attr_name \in {"color", "description", "icon"} |->
                    CASE attr_name = "color" -> color
                      [] attr_name = "description" -> description
                      [] attr_name = "icon" -> icon]
    IN  [attr_name \in {a \in DOMAIN value : value[a] # UNDEFINED /\ old[a] # value[a]}
            |-> value[attr_name]]

\* The lookup is made for every new name.
NameLookupAlways(L, I, old, name, normalized_name) ==
    async_get_label_by_name(L, I, name)

\* The test of async_update for a name in use: the lookup is made only when
\* the normalized name changes.
NameLookup(L, I, old, name, normalized_name) ==
    IF normalized_name # old.normalized_name
    THEN async_get_label_by_name(L, I, name)
    ELSE [error |-> "none", returned |-> <<>>]

\* dataclasses.replace(old, **changes)
Replace(old, changes) ==
    [a \in DOMAIN old |-> IF a \in DOMAIN changes THEN changes[a] ELSE old[a]]

\* The new key is set and the old key is not popped.
RepointKeepsOld(I, old_normalized_name, normalized_name) ==
    Put(I, normalized_name, I[old_normalized_name])

\* idx[normalized_name] = idx.pop(old_normalized_name)
Repoint(I, old_normalized_name, normalized_name) ==
    Put(Remove(I, old_normalized_name), normalized_name, I[old_normalized_name])

\* The save is scheduled and the event fired before the index is repointed.
ApplyChangesEventFirst(r0, label_id, old, changes, normalized_name) ==
    LET new == Replace(old, changes)
        r1 == [r0 EXCEPT !.labels = Put(@, label_id, new)]
    IN  IF normalized_name # None /\ old.normalized_name \notin DOMAIN r1.idx
        THEN Raise(r1, "KeyError")
        ELSE
            LET r2 == async_schedule_save(r1)
                r3 == async_fire(r2, "update", label_id)
                r4 == IF normalized_name # None
                      THEN [r3 EXCEPT !.idx = Put(Remove(@, old.normalized_name),
                                                  normalized_name, @[old.normalized_name])]
                      ELSE r3
            IN  Return(r4, <<new>>)

\* Lines 172-183 of async_update: the change set is not empty.
ApplyChanges(r0, label_id, old, changes, normalized_name) ==
    LET new == Replace(old, changes)
        r1 == [r0 EXCEPT !.labels = Put(@, label_id, new)]
    IN  IF normalized_name # None /\ old.normalized_name \notin DOMAIN r1.idx
        THEN Raise(r1, "KeyError")
        ELSE
            LET r2 == IF normalized_name # None
                      THEN [r1 EXCEPT !.idx = Repoint(@, old.normalized_name, normalized_name)]
                      ELSE r1
                r3 == async_schedule_save(r2)
                r4 == async_fire(r3, "update", label_id)
            IN  Return(r4, <<new>>)

\* Lines 144-183 of async_update: the label is in the registry.
UpdateFound(r0, label_id, old, color, description, icon, name) ==
    LET renamed == name # UNDEFINED /\ name # old.name
        normalized_name == IF renamed THEN normalize_label_name(name) ELSE None
        found == IF renamed
                 THEN NameLookup(r0.labels, r0.idx, old, name, normalized_name)
                 ELSE [error |-> "none", returned |-> <<>>]
        changes == FieldChanges(old, color, description, icon) @@
                   (IF renamed
                    THEN [name |-> name, normalized_name |-> normalized_name]
                    ELSE EmptyMap)
    IN  IF found.error # "none" THEN Raise(r0, found.error)
        ELSE IF found.returned # <<>> THEN Raise(r0, "ValueError")
        ELSE IF DOMAIN changes = {} THEN Return(r0, <<old>>)
        ELSE ApplyChanges(r0, label_id, old, changes, normalized_name)

\* async_update(label_id, color=, description=, icon=, name=)
async_update(L, I, label_id, color, description, icon, name) ==
    IF label_id \notin DOMAIN L THEN Raise(Frame(L, I), "KeyError")
    ELSE UpdateFound(Frame(L, I), label_id, L[label_id], color, description, icon, name)

\* ---------------------------------------------------------------- actions
NoArg == <<"-">>

Slugs == {slugify(n) : n \in Names}

\* The ids update and delete are called with: those in use and the first id
\* a create returns, which is not in the registry before it and after its delete.
IdsIn == DOMAIN labels \cup {slugify(<<"a">>)}

\* The record of a call: the operation and its arguments, the registry it was
\* made on, the exception raised, the value returned and the calls it made.
Called(op, label_id, name, color, description, icon, L, I, r) ==
    [op |-> op, label_id |-> label_id, name |-> name, color |-> color,
     description |-> description, icon |-> icon,
     before |-> [labels |-> L, idx |-> I],
     error |-> r.error, returned |-> r.returned, trace |-> r.trace]

\* Whether the call added a label to the registry.
Added(r) == Cardinality(DOMAIN r.labels) > Cardinality(DOMAIN labels)

\* One call of an operation: the registry and the record of the call.
Step(op, label_id, name, color, description, icon, r) ==
    /\ Added(r) => Cardinality(DOMAIN labels) < MaxLabels
    /\ labels' = r.labels
    /\ idx' = r.idx
    /\ call' = Called(op, label_id, name, color, description, icon, labels, idx, r)

\* The history of the ids, kept by the specification SpecIds.
Track(name, r) ==
    /\ Added(r) => created[slugify(name)].n < MaxCreates
    /\ assigned' = IF Added(r) THEN assigned \cup {r.returned[1].label_id} ELSE assigned
    /\ created' = IF Added(r)
                  THEN [created EXCEPT ![slugify(name)] =
                            [n |-> @.n + 1,
                             names |-> @.names \cup {normalize_label_name(name)}]]
                  ELSE created

Untracked == UNCHANGED <<assigned, created>>

\* A call on a loaded registry, its store left aside.
InMemory == UNCHANGED <<store, timers, hass>>

\* No file yet: self._store.async_load() returns None.
NoFile == [exists |-> FALSE, labels |-> <<>>]

Loaded == [registry |-> TRUE, load |-> "done"]

Init ==
    /\ labels = EmptyMap
    /\ idx = EmptyMap
    /\ call = Called("init", NoArg, NoArg, NoArg, NoArg, NoArg, EmptyMap, EmptyMap,
                     Return(Frame(EmptyMap, EmptyMap), <<>>))
    /\ assigned = {}
    /\ created = [s \in Slugs |-> [n |-> 0, names |-> {}]]
    /\ store = NoFile
    /\ timers = <<>>
    /\ hass = Loaded

CreateWith(name, color, icon, description) ==
    Step("create", NoArg, name, color, description, icon,
         async_create(labels, idx, name, color, icon, description))

GetOrCreateWith(name) ==
    Step("get_or_create", NoArg, name, NoArg, NoArg, NoArg,
         async_get_or_create(labels, idx, name))

UpdateWith(label_id, color, description, icon, name) ==
    Step("update", label_id, name, color, description, icon,
         async_update(labels, idx, label_id, color, description, icon, name))

DeleteWith(label_id) ==
    Step("delete", label_id, NoArg, NoArg, NoArg, NoArg,
         async_delete(labels, idx, label_id))

Create ==
    \E name \in Names, color \in ColorIn \ {UNDEFINED} :
        CreateWith(name, color, None, None) /\ Untracked /\ InMemory

GetOrCreate ==
    \E name \in Names : GetOrCreateWith(name) /\ Untracked /\ InMemory

Update ==
    \E label_id \in IdsIn, name \in UpdateNames \cup {UNDEFINED}, color \in ColorIn,
       description \in DescriptionIn, icon \in IconIn :
        UpdateWith(label_id, color, description, icon, name) /\ Untracked /\ InMemory

Delete ==
    \E label_id \in IdsIn : DeleteWith(label_id) /\ Untracked /\ InMemory

Next == Create \/ GetOrCreate \/ Update \/ Delete

Spec == Init /\ [][Next]_vars

\* The same operations with the history of the ids kept: labels are created,
\* renamed and deleted.
CreateTracked ==
    \E name \in IdNames :
        /\ CreateWith(name, None, None, None)
        /\ Track(name, async_create(labels, idx, name, None, None, None))
        /\ InMemory

RenameTracked ==
    \E label_id \in DOMAIN labels, name \in RenameNames :
        UpdateWith(label_id, UNDEFINED, UNDEFINED, UNDEFINED, name) /\ Untracked /\ InMemory

DeleteTracked ==
    \E label_id \in DOMAIN labels : DeleteWith(label_id) /\ Untracked /\ InMemory

NextIds == CreateTracked \/ RenameTracked \/ DeleteTracked

SpecIds == Init /\ [][NextIds]_vars

\* ------------------------------------------------------------ persistence
SAVE_DELAY == 10

\* The sequences that list every element of a set once.
RECURSIVE Orderings(_)
Orderings(S) ==
    IF S = {} THEN {<<>>}
    ELSE UNION {{<<x>> \o s : s \in Orderings(S \ {x})} : x \in S}

\* The item written with the icon in the place of the color.
StoredIconTwice(entry) ==
    [color |-> entry.icon, description |-> entry.description, icon |-> entry.icon,
     label_id |-> entry.label_id, name |-> entry.name]

\* The item written with the normalized name in the place of the name.
StoredNormalizedName(entry) ==
    [color |-> entry.color, description |-> entry.description, icon |-> entry.icon,
     label_id |-> entry.label_id, name |-> entry.normalized_name]

\* One item of the list _data_to_save returns: the entry without normalized_name.
Stored(entry) ==
    [color |-> entry.color, description |-> entry.description, icon |-> entry.icon,
     label_id |-> entry.label_id, name |-> entry.name]

\* _data_to_save: one item per label, in the order of self.labels.values().
\* The maps of the model keep no order, so every order is a possible list.
data_to_save(L) == Orderings({Stored(L[id]) : id \in DOMAIN L})

\* The loop of async_load over data["labels"]: each entry is put in the local
\* map, and its normalized name in self._normalized_name_label_idx as it is.
RECURSIVE LoadItems(_, _, _)
LoadItems(items, loaded, I) ==
    IF items = <<>> THEN [labels |-> loaded, idx |-> I]
    ELSE LET label == Head(items)
             normalized_name == normalize_label_name(label.name)
         IN  LoadItems(Tail(items),
                       Put(loaded, label.label_id,
                           LabelEntry(label.label_id, label.name, normalized_name,
                                      label.description, label.color, label.icon)),
                       Put(I, normalized_name, label.label_id))

\* LabelRegistry.async_load once self._store.async_load() has returned data:
\* self.labels is replaced by the loaded map, the index is the one written to.
async_load(I, data) ==
    LET r == IF data.exists THEN LoadItems(data.labels, EmptyMap, I)
             ELSE [labels |-> EmptyMap, idx |-> I]
    IN  Return(Frame(r.labels, r.idx), <<>>)

\* The data_func the registry hands to its store: the bound method
\* self._data_to_save, called by the store when it writes.
DataFunc == [called |-> TRUE, data |-> <<>>]

\* A delayed write the store has pending.
Timer(delay, data_func) == [remaining |-> delay, data_func |-> data_func]

\* Store.async_delay_save(data_func, delay): the pending delayed write, if any,
\* is cancelled and one is scheduled after delay.
async_delay_save(T, data_func, delay) == <<Timer(delay, data_func)>>

\* async_schedule_save on a store of its own for each call.
ScheduleSaveOwnStore(T, effect) == T \o async_delay_save(<<>>, DataFunc, SAVE_DELAY)

\* async_schedule_save, called by a handler with the registry as in effect.
ScheduleSave(T, effect) == async_delay_save(T, DataFunc, SAVE_DELAY)

\* The store after the calls of async_schedule_save a handler made.
RECURSIVE SaveCalls(_, _)
SaveCalls(T, trace) ==
    IF trace = <<>> THEN T
    ELSE SaveCalls(IF Head(trace).kind = "save" THEN ScheduleSave(T, Head(trace))
                   ELSE T,
                   Tail(trace))

\* The lists a delayed write may write when it is due.
Written(timer, L) ==
    IF timer.data_func.called THEN data_to_save(L) ELSE {timer.data_func.data}

SaveNames == {<<"A", " ">>}

\* A call on a registry with its store: the handler's calls of
\* async_schedule_save reach the store.
Saved(r) ==
    /\ timers' = SaveCalls(timers, r.trace)
    /\ UNCHANGED <<store, hass>>
    /\ Untracked

CreateSaved ==
    \E name \in SaveNames :
        /\ CreateWith(name, None, None, None)
        /\ Saved(async_create(labels, idx, name, None, None, None))

UpdateSaved ==
    \E label_id \in DOMAIN labels, name \in {UNDEFINED, <<"a", " ", "2">>},
       color \in {UNDEFINED, Red} :
        /\ UpdateWith(label_id, color, UNDEFINED, UNDEFINED, name)
        /\ Saved(async_update(labels, idx, label_id, color, UNDEFINED, UNDEFINED, name))

DeleteSaved ==
    \E label_id \in DOMAIN labels :
        /\ DeleteWith(label_id)
        /\ Saved(async_delete(labels, idx, label_id))

\* Time passes, up to the moment a delayed write is due.
Tick ==
    /\ timers # <<>>
    /\ \A i \in DOMAIN timers : timers[i].remaining > 0
    /\ timers' = [i \in DOMAIN timers |-> [timers[i] EXCEPT !.remaining = @ - 1]]
    /\ UNCHANGED <<labels, idx, call, store, hass>>
    /\ Untracked

\* A delayed write is due: the store writes what its data_func returns.
Flush ==
    \E i \in DOMAIN timers :
        /\ timers[i].remaining = 0
        /\ \E data \in Written(timers[i], labels) :
               store' = [exists |-> TRUE, labels |-> data]
        /\ timers' = SubSeq(timers, 1, i - 1) \o SubSeq(timers, i + 1, Len(timers))
        /\ call' = Called("flush", NoArg, NoArg, NoArg, NoArg, NoArg, labels, idx,
                          Return(Frame(labels, idx), <<>>))
        /\ UNCHANGED <<labels, idx, hass>>
        /\ Untracked

\* The next session, after a shutdown with no write pending: a registry just
\* constructed, with an empty index, loads the file.
Reload ==
    /\ timers = <<>>
    /\ call.op # "load"
    /\ LET r == async_load(EmptyMap, store)
       IN  /\ labels' = r.labels
           /\ idx' = r.idx
           /\ call' = Called("load", NoArg, NoArg, NoArg, NoArg, NoArg, labels, idx, r)
    /\ UNCHANGED <<store, timers, hass>>
    /\ Untracked

NextSave == CreateSaved \/ UpdateSaved \/ DeleteSaved \/ Tick \/ Flush \/ Reload

\* The delayed write runs when it is due, and time passes.
SpecSave == Init /\ [][NextSave]_vars /\ WF_vars(Tick) /\ WF_vars(Flush)

\* ---------------------------------------------------------------- startup
\* The files a session before this one may have left.
Files ==
    {NoFile,
     [exists |-> TRUE,
      labels |-> <<[color |-> None, description |-> None, icon |-> None,
                    label_id |-> <<"a">>, name |-> <<"A", " ">>]>>]}

\* hass.data before async_load(hass) is called.
Unset == [registry |-> FALSE, load |-> "none"]

InitLoad ==
    /\ labels = EmptyMap
    /\ idx = EmptyMap
    /\ call = Called("init", NoArg, NoArg, NoArg, NoArg, NoArg, EmptyMap, EmptyMap,
                     Return(Frame(EmptyMap, EmptyMap), <<>>))
    /\ assigned = {}
    /\ created = [s \in Slugs |-> [n |-> 0, names |-> {}]]
    /\ store \in Files
    /\ timers = <<>>
    /\ hass = Unset

\* async_load(hass) up to its await: the assert, then a registry just
\* constructed is put in hass.data and its async_load waits for the file.
StartLoad(h, L, I) ==
    IF h.registry
    THEN [hass |-> h, r |-> Raise(Frame(L, I), "AssertionError")]
    ELSE [hass |-> [registry |-> TRUE, load |-> "suspended"],
          r |-> Return(Frame(EmptyMap, EmptyMap), <<>>)]

\* A task calls async_load(hass).
Load ==
    LET s == StartLoad(hass, labels, idx)
    IN  /\ hass' = s.hass
        /\ labels' = s.r.labels
        /\ idx' = s.r.idx
        /\ call' = Called("async_load", NoArg, NoArg, NoArg, NoArg, NoArg,
                          labels, idx, s.r)
        /\ UNCHANGED <<store, timers>>
        /\ Untracked

\* self._store.async_load() returns: LabelRegistry.async_load runs to its end.
Resume ==
    /\ hass.load = "suspended"
    /\ LET r == async_load(idx, store)
       IN  /\ labels' = r.labels
           /\ idx' = r.idx
           /\ call' = Called("load", NoArg, NoArg, NoArg, NoArg, NoArg, labels, idx, r)
    /\ hass' = [hass EXCEPT !.load = "done"]
    /\ UNCHANGED <<store, timers>>
    /\ Untracked

\* async_get(hass) before async_load(hass) was called: hass.data has no
\* DATA_REGISTRY and the lookup raises.
GetUnset ==
    /\ ~hass.registry
    /\ call' = Called("async_get", NoArg, NoArg, NoArg, NoArg, NoArg, labels, idx,
                      Raise(Frame(labels, idx), "KeyError"))
    /\ UNCHANGED <<labels, idx, store, timers, hass>>
    /\ Untracked

\* Another task calls an operation of the registry async_get(hass) returns.
CreateAny ==
    \E name \in {<<"A", " ">>, <<"a", "_">>} :
        /\ hass.registry
        /\ CreateWith(name, None, None, None)
        /\ Saved(async_create(labels, idx, name, None, None, None))

UpdateAny ==
    \E label_id \in IdsIn, name \in {UNDEFINED, <<"a", "_">>}, color \in {UNDEFINED, Red} :
        /\ hass.registry
        /\ UpdateWith(label_id, color, UNDEFINED, UNDEFINED, name)
        /\ Saved(async_update(labels, idx, label_id, color, UNDEFINED, UNDEFINED, name))

DeleteAny ==
    \E label_id \in IdsIn :
        /\ hass.registry
        /\ DeleteWith(label_id)
        /\ Saved(async_delete(labels, idx, label_id))

NextLoad == Load \/ Resume \/ GetUnset \/ CreateAny \/ UpdateAny \/ DeleteAny

SpecLoad == InitLoad /\ [][NextLoad]_vars

\* ----------------------------------------------------------------- fields
\* Updates of every optional field: left out, set to None, set to a value.
Text == <<"t">>

Mdi == <<"m">>

FieldNames == {<<"a">>, <<"a", "_">>}

CreateFields ==
    \E name \in FieldNames :
        CreateWith(name, None, None, None) /\ Untracked /\ InMemory

UpdateFields ==
    \E label_id \in DOMAIN labels, name \in {UNDEFINED, <<"A", " ">>},
       color \in {UNDEFINED, None, Red}, description \in {UNDEFINED, None, Text},
       icon \in {UNDEFINED, None, Mdi} :
        UpdateWith(label_id, color, description, icon, name) /\ Untracked /\ InMemory

NextFields == CreateFields \/ UpdateFields

SpecFields == Init /\ [][NextFields]_vars

\* ------------------------------------------------------------------ reads
\* async_get_label(label_id): self.labels.get(label_id)
async_get_label(L, I, label_id) ==
    Return(Frame(L, I), IF label_id \in DOMAIN L THEN <<L[label_id]>> ELSE <<>>)

\* async_list_labels(): self.labels.values()
async_list_labels(L, I) == Return(Frame(L, I), <<{L[id] : id \in DOMAIN L}>>)

\* async_get_label_by_name(name), called from outside the registry.
GetByNameWith(name) ==
    LET found == async_get_label_by_name(labels, idx, name)
        r == IF found.error # "none" THEN Raise(Frame(labels, idx), found.error)
             ELSE Return(Frame(labels, idx), found.returned)
    IN  Step("get_by_name", NoArg, name, NoArg, NoArg, NoArg, r)

Get ==
    \E label_id \in IdsIn :
        /\ Step("get", label_id, NoArg, NoArg, NoArg, NoArg,
                async_get_label(labels, idx, label_id))
        /\ Untracked /\ InMemory

GetByName ==
    \E name \in UpdateNames : GetByNameWith(name) /\ Untracked /\ InMemory

List ==
    /\ Step("list", NoArg, NoArg, NoArg, NoArg, NoArg, async_list_labels(labels, idx))
    /\ Untracked /\ InMemory

NextEvents == Next \/ Get \/ GetByName \/ List

SpecEvents == Init /\ [][NextEvents]_vars

\* ----------------------------------------------------------------- claims
\* Invariant 1 of the registry: every label is indexed under its normalized name.
Invariant1(L, I) ==
    \A id \in DOMAIN L :
        L[id].normalized_name \in DOMAIN I /\ I[L[id].normalized_name] = id

\* Invariant 2: the index and the map of labels have the same number of entries.
Invariant2(L, I) == Cardinality(DOMAIN I) = Cardinality(DOMAIN L)

\* Invariant 3: no two labels share a normalized name.
Invariant3(L) ==
    \A a, b \in DOMAIN L : a # b => L[a].normalized_name # L[b].normalized_name

\* The last call created a label (get_or_create on its creation path too).
Created ==
    /\ call.op \in {"create", "get_or_create"}
    /\ call.error = "none"
    /\ call.trace # <<>>

NewId == call.returned[1].label_id

\* C1: from the empty registry, after every create, get_or_create, update and
\* delete, whether it returned or raised, invariants 1-3 hold.
C1_Invariants ==
    /\ Invariant1(labels, idx)
    /\ Invariant2(labels, idx)
    /\ Invariant3(labels)

\* C1 happens: a rename was refused in a registry of two labels, one of which
\* was renamed before.
C1_Witness ==
    /\ call.op = "update"
    /\ call.error = "ValueError"
    /\ Cardinality(DOMAIN labels) = 2
    /\ \E id \in DOMAIN labels : slugify(labels[id].name) # slugify(<<"a">>)

\* C2 as claimed: no create returns an id that an earlier create returned.
C2_NeverReused ==
    [][created' # created => call'.returned[1].label_id \notin assigned]_vars

\* C2 as amended: an id stays with its label as long as the label is in the
\* registry: every label is stored under its own id, only delete(id) takes an
\* id out of the registry, and a create returns an id that is not in it.
C2_HeldIdsStay ==
    /\ \A id \in DOMAIN labels : labels[id].label_id = id
    /\ \A id \in DOMAIN call.before.labels :
          \/ id \in DOMAIN labels /\ (Created => NewId # id)
          \/ call.op = "delete" /\ call.label_id = id /\ call.error = "none"
    /\ Created => NewId \notin DOMAIN call.before.labels

\* C2 happens: the second label created with a slug got the id of the first,
\* which had been deleted.
C2_Witness ==
    /\ Created
    /\ created[slugify(call.name)].n = 2
    /\ assigned = {NewId}

\* The label an update or a delete was called for, as it was before the call.
Known == call.label_id \in DOMAIN call.before.labels

Old == call.before.labels[call.label_id]

\* The call left the two maps as they were.
Unchanged == labels = call.before.labels /\ idx = call.before.idx

\* A create with a name whose normalized name a label has.
DuplicateCreate ==
    /\ call.op = "create"
    /\ \E id \in DOMAIN call.before.labels :
          call.before.labels[id].normalized_name = normalize_label_name(call.name)

\* An update with a new name whose normalized name another label has.
DuplicateRename ==
    /\ call.op = "update"
    /\ Known
    /\ call.name # UNDEFINED
    /\ \E id \in DOMAIN call.before.labels \ {call.label_id} :
          call.before.labels[id].normalized_name = normalize_label_name(call.name)

\* C3: a create or an update with a name whose normalized name another label
\* has raises the duplicate-name error (ValueError), the two maps stay as they
\* were and no save is scheduled and no event fired, whatever else was passed.
C3_DuplicateRejected ==
    (DuplicateCreate \/ DuplicateRename) =>
        /\ call.error = "ValueError"
        /\ Unchanged
        /\ call.trace = <<>>

\* C3 happens: an update with the name of another label and a new color was
\* refused.
C3_Witness ==
    /\ DuplicateRename
    /\ call.color \notin {UNDEFINED, Old.color}
    /\ call.error = "ValueError"

\* C4: a successful create returns an id that was not a key of the registry
\* before the call; the other labels stay and there is one label more.
C4_FreshId ==
    (call.op = "create" /\ call.error = "none") =>
        /\ NewId \notin DOMAIN call.before.labels
        /\ DOMAIN labels = DOMAIN call.before.labels \cup {NewId}
        /\ Cardinality(DOMAIN labels) = Cardinality(DOMAIN call.before.labels) + 1
        /\ \A id \in DOMAIN call.before.labels : labels[id] = call.before.labels[id]
        /\ labels[NewId] = call.returned[1]

\* C4 happens: a create whose slug was an id in use returned another id.
C4_Witness ==
    /\ call.op = "create"
    /\ call.error = "none"
    /\ slugify(call.name) \in DOMAIN call.before.labels
    /\ NewId # slugify(call.name)

\* The n-th id of a slug: base, base_2, base_3, ...
NthId(base, n) == IF n = 1 THEN base ELSE base \o <<"_">> \o str(n)

EmptyChange ==
    /\ call.op = "update"
    /\ Known
    /\ call.name \in {UNDEFINED, Old.name}
    /\ call.color \in {UNDEFINED, Old.color}
    /\ call.description \in {UNDEFINED, Old.description}
    /\ call.icon \in {UNDEFINED, Old.icon}

\* C6: an update with an empty change set returns the label as it is, leaves
\* the two maps as they were, schedules no save and fires no event.
C6_EmptyChangeNoOp ==
    EmptyChange =>
        /\ call.error = "none"
        /\ call.returned = <<Old>>
        /\ Unchanged
        /\ call.trace = <<>>

\* C6 happens: an update passed the name and the color the label has.
C6_Witness ==
    /\ EmptyChange
    /\ call.name = Old.name
    /\ call.color = Old.color
    /\ call.error = "none"

\* An update with a name of the normalized name the label has.
SameNormalizedRename ==
    /\ call.op = "update"
    /\ Known
    /\ call.name # UNDEFINED
    /\ normalize_label_name(call.name) = Old.normalized_name

\* C7: a rename to a name of the label's own normalized name is accepted: it
\* raises nothing, the label has the name, and the index is as it was.
C7_OwnNormalizedName ==
    SameNormalizedRename =>
        /\ call.error = "none"
        /\ labels[call.label_id].name = call.name
        /\ idx = call.before.idx

\* C7 happens: a label got another spelling of its normalized name.
C7_Witness ==
    /\ SameNormalizedRename
    /\ call.name # Old.name
    /\ call.error = "none"
    /\ labels[call.label_id].name = call.name

\* An accepted update with a name of another normalized name.
Renamed ==
    /\ call.op = "update"
    /\ Known
    /\ call.error = "none"
    /\ call.name # UNDEFINED
    /\ normalize_label_name(call.name) # Old.normalized_name

\* C8: after an accepted rename from normalized name A to B the index has no
\* key A, maps B to the id and is otherwise as it was; the label is stored
\* under the same id; the old name is not found and the new name finds it.
C8_Repointed ==
    Renamed =>
        LET A == Old.normalized_name
            B == normalize_label_name(call.name)
        IN  /\ A \notin DOMAIN idx
            /\ DOMAIN idx = (DOMAIN call.before.idx \ {A}) \cup {B}
            /\ idx[B] = call.label_id
            /\ \A k \in DOMAIN call.before.idx \ {A} : idx[k] = call.before.idx[k]
            /\ DOMAIN labels = DOMAIN call.before.labels
            /\ labels[call.label_id].label_id = call.label_id
            /\ labels[call.label_id].name = call.name
            /\ async_get_label_by_name(labels, idx, Old.name).returned = <<>>
            /\ async_get_label_by_name(labels, idx, call.name).returned
                   = <<labels[call.label_id]>>

\* C8 happens: one of two labels was renamed to another normalized name.
C8_Witness ==
    /\ Renamed
    /\ Cardinality(DOMAIN labels) = 2

\* An update or a delete of an id that is not in the registry.
NotFound ==
    /\ call.op \in {"update", "delete"}
    /\ ~Known

\* C9: update and delete of an id that is not in the registry raise the
\* not-found error (KeyError), leave the two maps as they were and make no
\* call: no reference is cleared, no save scheduled, no event fired.
C9_NotFound ==
    NotFound =>
        /\ call.error = "KeyError"
        /\ Unchanged
        /\ call.trace = <<>>

\* C9 happens: a delete of an id that is not in a registry of one label or more.
C9_Witness ==
    /\ NotFound
    /\ call.op = "delete"
    /\ call.error = "KeyError"
    /\ DOMAIN labels # {}

\* C10: a successful delete clears the references in the device and the
\* entity registry, once each, with the label still in the registry; then the
\* label and its index key are removed; then the event is fired; then the
\* save is scheduled.
C10_DeleteOrder ==
    (call.op = "delete" /\ call.error = "none") =>
        LET t == call.trace
            A == Old.normalized_name
        IN  /\ Len(t) = 4
            /\ {t[1].kind, t[2].kind} = {"device_registry", "entity_registry"}
            /\ \A i \in 1..2 :
                  /\ t[i].action = "clear"
                  /\ t[i].label_id = call.label_id
                  /\ call.label_id \in DOMAIN t[i].labels
            /\ t[3].kind = "event"
            /\ t[3].action = "remove"
            /\ t[3].label_id = call.label_id
            /\ call.label_id \notin DOMAIN t[3].labels
            /\ A \notin DOMAIN t[3].idx
            /\ t[4].kind = "save"
            /\ call.label_id \notin DOMAIN labels
            /\ A \notin DOMAIN idx

\* C10 happens: one of two labels was deleted.
C10_Witness ==
    /\ call.op = "delete"
    /\ call.error = "none"
    /\ Len(call.trace) = 4
    /\ Cardinality(DOMAIN labels) = 1

\* The entity the registry holds under id is entry but for normalized_name.
SameEntity(L, id, entry) ==
    /\ id \in DOMAIN L
    /\ L[id].label_id = entry.label_id
    /\ L[id].name = entry.name
    /\ L[id].color = entry.color
    /\ L[id].description = entry.description
    /\ L[id].icon = entry.icon

\* C11: a registry loaded from the file written for a state holds the same ids
\* with the same id, name, color, description and icon, each normalized_name
\* computed from the name, and an index satisfying invariants 1-3.
C11_RoundTrip ==
    call.op = "load" =>
        /\ DOMAIN labels = DOMAIN call.before.labels
        /\ \A id \in DOMAIN labels :
               /\ SameEntity(call.before.labels, id, labels[id])
               /\ labels[id].normalized_name = normalize_label_name(labels[id].name)
        /\ Invariant1(labels, idx)
        /\ Invariant2(labels, idx)
        /\ Invariant3(labels)

\* C11 happens: two labels were loaded, one with a color, one whose name is
\* not its normalized name.
C11_Witness ==
    /\ call.op = "load"
    /\ Cardinality(DOMAIN labels) = 2
    /\ \E id \in DOMAIN labels : labels[id].color = Red
    /\ \E id \in DOMAIN labels : labels[id].normalized_name # labels[id].name

\* The last call was a create, an update or a delete that changed the registry.
Accepted ==
    /\ call.op \in {"create", "get_or_create", "update", "delete"}
    /\ call.error = "none"
    /\ call.trace # <<>>

\* C12: however many times async_schedule_save is called while a write is
\* pending, the store has at most one delayed write pending, and once it has
\* written none is left: one write for all the calls.
C12_OneWrite ==
    /\ Len(timers) <= 1
    /\ Accepted => Len(timers) = 1
    /\ call.op = "flush" => timers = <<>>

\* C12 happens: two labels were created and one deleted with no write in
\* between, and the third call left one delayed write, SAVE_DELAY away.
C12_Witness ==
    /\ call.op = "delete"
    /\ Accepted
    /\ Cardinality(DOMAIN call.before.labels) = 2
    /\ ~store.exists
    /\ timers = <<Timer(SAVE_DELAY, DataFunc)>>

\* C13: what a delayed write writes is the registry as it is when the write
\* runs: one item for each label created and not deleted by then, with the
\* name, color, description and icon its last update left.
C13_FlushTime ==
    call.op = "flush" =>
        /\ store.exists
        /\ Len(store.labels) = Cardinality(DOMAIN labels)
        /\ {store.labels[i].label_id : i \in DOMAIN store.labels} = DOMAIN labels
        /\ \A i \in DOMAIN store.labels :
               SameEntity(labels, store.labels[i].label_id, store.labels[i])

\* C13 happens: a label was created, then renamed and given a color while the
\* write was pending, and the write has run.
C13_Witness ==
    /\ call.op = "flush"
    /\ \E id \in DOMAIN labels :
           /\ labels[id].name = <<"a", " ", "2">>
           /\ labels[id].color = Red
    /\ Len(store.labels) = 1

\* C14: after every create, update or delete that changed the registry, the
\* store eventually writes.
C14_EventuallyWritten == Accepted ~> (call.op = "flush")

\* C15: a call of async_load(hass) made once DATA_REGISTRY is set raises, and
\* no create, update or delete changes a registry whose load has not completed.
C15_LoadOnce ==
    [][/\ (hass.registry /\ call'.op = "async_load" /\ call' # call)
          => call'.error = "AssertionError"
       /\ (Accepted' /\ call' # call) => hass.load = "done"]_vars

\* C20: when async_load has completed, the index holds the normalized name of
\* each label, mapped to its id, and nothing else.
C20_IndexRebuilt ==
    (call.op = "load" /\ hass.load = "done") =>
        /\ Invariant1(labels, idx)
        /\ Invariant2(labels, idx)

\* The value a field has after an update called with value for it.
After(value, old_value) == IF value = UNDEFINED THEN old_value ELSE value

\* C16: after an update that returned, each of name, color, description and
\* icon of the label is the value passed, also when that is None, or the old
\* one when none was passed; the normalized name follows the name; the id and
\* every other label are as before; the label is what the call returned.
C16_UpdateFrame ==
    (call.op = "update" /\ call.error = "none") =>
        LET old == call.before.labels[call.label_id]
            new == labels[call.label_id]
        IN  /\ DOMAIN labels = DOMAIN call.before.labels
            /\ \A id \in DOMAIN labels \ {call.label_id} :
                   labels[id] = call.before.labels[id]
            /\ new.label_id = old.label_id
            /\ new.label_id = call.label_id
            /\ new.color = After(call.color, old.color)
            /\ new.description = After(call.description, old.description)
            /\ new.icon = After(call.icon, old.icon)
            /\ new.name = After(call.name, old.name)
            /\ new.normalized_name = normalize_label_name(new.name)
            /\ call.returned = <<new>>

\* C16 happens: in a registry of two labels, an update set the color of one
\* to None, gave it a description and left its icon and its name out.
C16_Witness ==
    /\ call.op = "update"
    /\ call.error = "none"
    /\ Cardinality(DOMAIN labels) = 2
    /\ call.color = None
    /\ call.before.labels[call.label_id].color = Red
    /\ call.description = Text
    /\ call.icon = UNDEFINED
    /\ call.before.labels[call.label_id].icon = Mdi
    /\ call.name = UNDEFINED

\* The labels of L whose normalized name is that of name.
Matching(L, name) ==
    {id \in DOMAIN L : L[id].normalized_name = normalize_label_name(name)}

\* What one get_or_create did: the match returned with nothing changed and
\* no call made, or else a label created with no color, description or icon.
GetOrCreateDid ==
    call.op = "get_or_create" =>
        LET match == Matching(call.before.labels, call.name) IN
        /\ call.error = "none"
        /\ Len(call.returned) = 1
        /\ IF match # {}
           THEN /\ \E id \in match : call.returned[1] = call.before.labels[id]
                /\ Unchanged
                /\ call.trace = <<>>
           ELSE /\ NewId \notin DOMAIN call.before.labels
                /\ labels = Put(call.before.labels, NewId, call.returned[1])
                /\ call.returned[1].name = call.name
                /\ call.returned[1].color = None
                /\ call.returned[1].description = None
                /\ call.returned[1].icon = None

\* A get_or_create that follows one with a name of the same normalized form
\* returns the same label and changes nothing.
GetOrCreateAgain ==
    (/\ call.op = "get_or_create"
     /\ call'.op = "get_or_create"
     /\ call' # call
     /\ normalize_label_name(call'.name) = normalize_label_name(call.name))
    => /\ call'.returned = call.returned
       /\ call'.trace = <<>>
       /\ labels' = labels
       /\ idx' = idx

\* C17: get_or_create returns the label whose normalized name is that of the
\* name, with no change, save or event, or else creates one with color,
\* description and icon None; called again with a name of the same normalized
\* form it returns the same label and does nothing more.
C17_GetOrCreate == [][GetOrCreateDid' /\ GetOrCreateAgain]_vars

\* C17 happens: get_or_create returned a label whose name is not the one it
\* was called with.
C17_Witness ==
    /\ call.op = "get_or_create"
    /\ call.error = "none"
    /\ call.trace = <<>>
    /\ call.returned[1].name # call.name
    /\ Cardinality(DOMAIN labels) = 2

IsEvent(effect) == effect.kind = "event"

IsSave(effect) == effect.kind = "save"

\* The last call returned and left the registry other than it found it.
Mutated == call.error = "none" /\ ~Unchanged

\* The action an event carries for a mutation.
ActionOf(op) ==
    CASE op = "update" -> "update"
      [] op = "delete" -> "remove"
      [] OTHER -> "create"

\* The id of the label a mutation created, updated or deleted.
Affected == IF call.op \in {"update", "delete"} THEN call.label_id ELSE NewId

\* C18: a create, update or delete that changed the registry fired one event,
\* with its action and the id of its label, and scheduled one save; a call that
\* raised, an update of nothing, a get_or_create that found its label and the
\* reads get, get_by_name and list fired no event, scheduled no save and
\* changed nothing.
C18_EventsMirror ==
    LET events == SelectSeq(call.trace, IsEvent)
        saves == SelectSeq(call.trace, IsSave)
    IN  IF Mutated
        THEN /\ call.op \in {"create", "get_or_create", "update", "delete"}
             /\ Len(events) = 1
             /\ events[1].action = ActionOf(call.op)
             /\ events[1].label_id = Affected
             /\ Len(saves) = 1
        ELSE /\ events = <<>>
             /\ saves = <<>>

\* C18 happens: a create under a name that is not its id fired its event.
C18_Witness ==
    /\ call.op = "create"
    /\ Mutated
    /\ NewId # call.name
    /\ Cardinality(DOMAIN labels) = 2

\* The two maps agree: invariants 1 and 2.
Agree(L, I) == Invariant1(L, I) /\ Invariant2(L, I)

\* C19: the labels and the index agree between calls and whenever a handler
\* calls out, to the device registry, the entity registry, the store or the
\* event bus: no collaborator or listener is handed a registry with a label in
\* one map and missing from, or stale in, the other.
C19_NoPartialUpdate ==
    /\ Agree(labels, idx)
    /\ \A i \in DOMAIN call.trace : Agree(call.trace[i].labels, call.trace[i].idx)

\* C19 happens: a rename of one of two labels moved its index entry, then
\* scheduled the save and fired the event.
C19_Witness ==
    /\ call.op = "update"
    /\ Mutated
    /\ Cardinality(DOMAIN labels) = 2
    /\ DOMAIN idx # DOMAIN call.before.idx
    /\ Len(call.trace) = 2
    /\ call.trace[2].idx = idx
====
